---- MODULE Spec2Model ----
(***************************************************************************)
(* A model of the eMOTA trail server (src/server.py) and of its client     *)
(* (src/client.py): the game state and handle_action, the per-connection   *)
(* handler threads with the snapshot broadcast, the byte stream between a  *)
(* client and its handler, and the client's receiver and reconciliation.   *)
(***************************************************************************)
EXTENDS Integers, Sequences, FiniteSets, TLC

VARIABLES
    players,          \* GameState.players: the list of Player records
    day,              \* GameState.day
    current_weather,  \* GameState.current_weather
    now,              \* the reading of time.time(), in clock ticks
    last,             \* the last call of handle_action: its arguments and what it did
    session,          \* the kind of session the run follows: what its clients send
    clients,          \* GameServer.clients: the list of accepted sockets
    last_snapshot_time, \* GameServer.last_snapshot_time
    sock,             \* per connection, the server's socket: "none", "open", "closed"
    peer,             \* per connection, the client's end: "up", "stalled", "gone"
    wire,             \* per connection, the tokens sent and not yet read by recv
    pc,               \* per connection, where its handle_client thread stands
    loc,              \* per connection, the locals of its handle_client thread
    got,              \* per connection, the last snapshot its client received
    hist,             \* per connection, what was sent, applied and refused so far
    client            \* a GameClient: its fields, its receive_updates thread, its stream

gameVars == <<players, day, current_weather>>
serverVars == <<clients, last_snapshot_time, sock, peer, wire, pc, loc, got, hist>>
vars == <<players, day, current_weather, now, last, session,
          clients, last_snapshot_time, sock, peer, wire, pc, loc, got, hist,
          client>>

-----------------------------------------------------------------------------
(* Bounds of the model.                                                    *)

\* How far past the end of the trail a walk is followed.
WalkOver == 1
\* How far along the trail a player is followed in the other sessions.
MaxPos == 2
\* How many records a player's event log is followed to.
MaxLog == 2
\* The last clock reading.
MaxTime == 1
\* How far food, ammo and the day counter are followed.
MaxFood == 120
MaxAmmo == 30
MaxDay == 2
\* How many records past ten a player's event log is followed to.
LogOver == 1

-----------------------------------------------------------------------------
(* Program constants.                                                      *)

TrailLength == 100
Landmarks == {10, 30, 50, 70, 90}
WeatherConditions == {"Clear", "Rain", "Storm", "Heat Wave"}
None == "None"
\* An absent choice argument, and the None that generate_event returns.
NoChoice == [absent |-> TRUE]
NoEvent == [type |-> None]

Max(a, b) == IF a >= b THEN a ELSE b
Min(a, b) == IF a <= b THEN a ELSE b
Abs(a) == IF a < 0 THEN 0 - a ELSE a

\* The client's float arithmetic, carried out exactly: the number n / d is
\* the record [n, d] in lowest terms with d > 0.
RECURSIVE Gcd(_, _)
Gcd(a, b) == IF b = 0 THEN a ELSE Gcd(b, a % b)

Rat(n, d) ==
    LET g == Gcd(Abs(n), Abs(d))
        s == IF d < 0 THEN 0 - 1 ELSE 1
    IN  [n |-> (s * n) \div g, d |-> (s * d) \div g]

RAdd(x, y) == Rat(x.n * y.d + y.n * x.d, x.d * y.d)
RSub(x, y) == Rat(x.n * y.d - y.n * x.d, x.d * y.d)
RMul(x, y) == Rat(x.n * y.n, x.d * y.d)
RDiv(x, y) == Rat(x.n * y.d, x.d * y.n)
RLe(x, y) == x.n * y.d <= y.n * x.d
RAbs(x) == [n |-> Abs(x.n), d |-> x.d]
RMin(x, y) == IF RLe(x, y) THEN x ELSE y

\* sum(xs) of a list of numbers.
RECURSIVE RSum(_)
RSum(xs) == IF xs = <<>> THEN Rat(0, 1) ELSE RAdd(Head(xs), RSum(Tail(xs)))

-----------------------------------------------------------------------------
(* Event                                                                   *)

NoEffects == [c \in {} |-> <<>>]

Event(type, description, effects, timestamp) ==
    [type |-> type, description |-> description, effects |-> effects,
     timestamp |-> timestamp]

-----------------------------------------------------------------------------
(* Player                                                                  *)

Player(name) ==
    [name |-> name, position |-> 0, food |-> 100, ammo |-> 20, money |-> 50,
     health |-> 100, wagon_condition |-> 100, active_effects |-> <<>>,
     events |-> <<>>]

\* consume_food with a penalty of 10.
consume_food_harsh(pl, amount) ==
    LET fed == [pl EXCEPT !.food = Max(0, pl.food - amount)]
    IN  IF fed.food = 0
        THEN [fed EXCEPT !.health = Max(0, fed.health - 10)]
        ELSE fed

consume_food(pl, amount) ==
    LET fed == [pl EXCEPT !.food = Max(0, pl.food - amount)]
    IN  IF fed.food = 0
        THEN [fed EXCEPT !.health = Max(0, fed.health - 5)]
        ELSE fed

add_food(pl, amount) == [pl EXCEPT !.food = pl.food + amount]

\* use_ammo that debits nothing.
use_ammo_kept(pl, amount) == pl

use_ammo(pl, amount) == [pl EXCEPT !.ammo = Max(0, pl.ammo - amount)]

add_ammo(pl, amount) == [pl EXCEPT !.ammo = pl.ammo + amount]

\* spend_money, line 86: the check of the balance.
spend_money_check(pl, amount) == pl.money >= amount

\* spend_money, line 87: self.money -= amount.
spend_money_debit(pl, amount) == [pl EXCEPT !.money = pl.money - amount]

spend_money(pl, amount) ==
    IF spend_money_check(pl, amount) THEN spend_money_debit(pl, amount) ELSE pl

earn_money(pl, amount) == [pl EXCEPT !.money = pl.money + amount]

\* modify_health without the upper clamp.
modify_health_unclamped(pl, amount) ==
    [pl EXCEPT !.health = Max(0, pl.health + amount)]

modify_health(pl, amount) ==
    [pl EXCEPT !.health = Max(0, Min(100, pl.health + amount))]

repair_wagon(pl, amount) ==
    [pl EXCEPT !.wagon_condition = Min(100, pl.wagon_condition + amount)]

damage_wagon(pl, amount) ==
    [pl EXCEPT !.wagon_condition = Max(0, pl.wagon_condition - amount)]

append_event(pl, ev) == [pl EXCEPT !.events = Append(pl.events, ev)]

-----------------------------------------------------------------------------
(* GameState.generate_event                                                *)

\* The outcomes of the two draws: no event (the 70% case, or the types
\* BANDITS and HUNTING, for which nothing is built), an illness, a weather
\* event for one of the four drawn weathers, a trading post.
GenDraws == {"none", "illness", "trading_post"} \cup WeatherConditions

IllnessEffects ==
    [rest |-> << <<"health", 20>>, <<"day", 1>> >>,
     continue |-> << <<"health", -10>> >>]

WeatherEffects(weather) ==
    [continue |-> << <<"wagon_condition", IF weather = "Storm" THEN -5 ELSE 0>> >>,
     wait |-> << <<"day", 1>> >>]

TradingEffects ==
    [buy_food |-> << <<"money", -10>>, <<"food", 15>> >>,
     buy_ammo |-> << <<"money", -5>>, <<"ammo", 10>> >>,
     repair |-> << <<"money", -20>>, <<"wagon_condition", 30>> >>]

generate_event(draw, t) ==
    IF draw = "illness"
    THEN Event("illness", "You're feeling sick!", IllnessEffects, t)
    ELSE IF draw \in WeatherConditions
    THEN Event("weather", draw, WeatherEffects(draw), t)
    ELSE IF draw = "trading_post"
    THEN Event("trading_post", "You've found a trading post!", TradingEffects, t)
    ELSE NoEvent

-----------------------------------------------------------------------------
(* GameServer.handle_action                                                *)

\* next((p for p in players if p.name == player_name), None): the index of
\* the first record of that name, 0 for None.
\* The lookup that takes the first record whatever its name.
FindFirst(ps, name) == IF ps = <<>> THEN 0 ELSE 1

FindPlayer(ps, name) ==
    IF \E i \in 1..Len(ps) : ps[i].name = name
    THEN CHOOSE i \in 1..Len(ps) :
            /\ ps[i].name = name
            /\ \A j \in 1..(i - 1) : ps[j].name # name
    ELSE 0

\* next((e for e in player.events if e.timestamp == event_time), None)
FindEvent(evs, event_time) ==
    IF \E i \in 1..Len(evs) : evs[i].timestamp = event_time
    THEN CHOOSE i \in 1..Len(evs) :
            /\ evs[i].timestamp = event_time
            /\ \A j \in 1..(i - 1) : evs[j].timestamp # event_time
    ELSE 0

\* One pass of the loop over effects.items(); st is the player with the day.
ApplyEffect(st, key, value) ==
    IF key = "health" THEN [st EXCEPT !.pl = modify_health(st.pl, value)]
    ELSE IF key = "food" THEN [st EXCEPT !.pl = add_food(st.pl, value)]
    ELSE IF key = "ammo" THEN [st EXCEPT !.pl = add_ammo(st.pl, value)]
    ELSE IF key = "money"
    THEN IF value < 0
         THEN [st EXCEPT !.pl = spend_money(st.pl, Abs(value))]
         ELSE [st EXCEPT !.pl = earn_money(st.pl, value)]
    ELSE IF key = "wagon_condition"
    THEN IF value < 0
         THEN [st EXCEPT !.pl = damage_wagon(st.pl, Abs(value))]
         ELSE [st EXCEPT !.pl = repair_wagon(st.pl, value)]
    ELSE IF key = "day" THEN [st EXCEPT !.day = st.day + value]
    ELSE st

RECURSIVE ApplyEffects(_, _)
ApplyEffects(st, items) ==
    IF items = <<>> THEN st
    ELSE ApplyEffects(ApplyEffect(st, Head(items)[1], Head(items)[2]), Tail(items))

\* The move branch.
DoMove(pl, t) ==
    LET moved == consume_food([pl EXCEPT !.position = pl.position + 1], 5)
    IN  IF moved.position \in Landmarks
        THEN append_event(moved, Event("trading_post", "landmark", NoEffects, t))
        ELSE moved

\* The hunt branch; success is the draw random.random() < 0.7.
DoHunt(pl, success, t) ==
    IF pl.ammo >= 2
    THEN LET shot == use_ammo(pl, 2)
         IN  IF success
             THEN append_event(add_food(shot, 20),
                               Event("hunting", "Successful hunt! Gained 20 food.", NoEffects, t))
             ELSE append_event(shot,
                               Event("hunting", "The hunt was unsuccessful.", NoEffects, t))
    ELSE pl

\* Whether the event_choice branch finds the event and the choice key.
Resolves(pl, choice) ==
    /\ choice # NoChoice
    /\ FindEvent(pl.events, choice.event_time) # 0
    /\ choice.choice \in DOMAIN pl.events[FindEvent(pl.events, choice.event_time)].effects

\* effects = event.effects[choice["choice"]], empty when the event or the
\* choice key is not found.
Bundle(pl, choice) ==
    IF Resolves(pl, choice)
    THEN pl.events[FindEvent(pl.events, choice.event_time)].effects[choice.choice]
    ELSE <<>>

\* The event_choice branch.
DoEventChoice(st, choice) == ApplyEffects(st, Bundle(st.pl, choice))

\* The branch of the action, on the player with the day.
DoAction(st, action, choice, success, t) ==
    IF action = "move" THEN [st EXCEPT !.pl = DoMove(st.pl, t)]
    ELSE IF action = "hunt" THEN [st EXCEPT !.pl = DoHunt(st.pl, success, t)]
    ELSE IF action = "event_choice" /\ choice # NoChoice THEN DoEventChoice(st, choice)
    ELSE st

\* The players list after the lookup and the append of an unseen name.
WithPlayer(ps, name) ==
    IF FindPlayer(ps, name) = 0 THEN Append(ps, Player(name)) ELSE ps

\* handle_action, lines 257-264: the generated event and the weather,
\* after the branch left the player with the day as st.
Finish(gs, i, st, rnd, t2) ==
    LET ev == generate_event(rnd.gen, t2)
        pl2 == IF ev # NoEvent THEN append_event(st.pl, ev) ELSE st.pl
    IN  [players |-> [gs.players EXCEPT ![i] = pl2],
         day |-> st.day,
         current_weather |-> IF rnd.weather # None THEN rnd.weather
                             ELSE gs.current_weather]

\* handle_action from the branch on, for the Player object at index i of
\* the list, on the game state gs = [players, day, current_weather].  rnd
\* holds the draws: success (the hunt), gen (the generated event), weather
\* (None for no update); t1 and t2 are the clock readings of the branch's
\* Event and of the generated Event.
ApplyAt(gs, i, action, choice, rnd, t1, t2) ==
    Finish(gs, i,
           DoAction([pl |-> gs.players[i], day |-> gs.day], action, choice,
                    rnd.success, t1),
           rnd, t2)

\* The whole of handle_action.
HandleActionFn(gs, name, action, choice, rnd, t1, t2) ==
    LET ps == WithPlayer(gs.players, name)
    IN  ApplyAt([gs EXCEPT !.players = ps], FindPlayer(ps, name),
                action, choice, rnd, t1, t2)

GameState == [players |-> players, day |-> day, current_weather |-> current_weather]

-----------------------------------------------------------------------------
(* to_dict and from_dict, and the JSON encoding between them.              *)

\* self.landmarks: a dict, as the set of its items; a key is an int in the
\* program and a string once it has been through JSON.
LandmarkNames ==
    {[key |-> [int |-> 10], name |-> "Independence"],
     [key |-> [int |-> 30], name |-> "Fort Kearney"],
     [key |-> [int |-> 50], name |-> "Fort Laramie"],
     [key |-> [int |-> 70], name |-> "Fort Bridger"],
     [key |-> [int |-> 90], name |-> "Fort Hall"]}

\* seq[-n:]
LastN(seq, n) == SubSeq(seq, Max(1, Len(seq) - n + 1), Len(seq))

\* Event.to_dict (the choices texts are not followed by the model).
Event_to_dict(e) ==
    [type |-> e.type, description |-> e.description, effects |-> e.effects,
     timestamp |-> e.timestamp]

\* Player.to_dict: the fields, and the last five events.
Player_to_dict(pl) ==
    [name |-> pl.name, position |-> pl.position, food |-> pl.food,
     ammo |-> pl.ammo, money |-> pl.money, health |-> pl.health,
     wagon_condition |-> pl.wagon_condition,
     active_effects |-> pl.active_effects,
     events |-> [j \in 1..Len(LastN(pl.events, 5)) |->
                    Event_to_dict(LastN(pl.events, 5)[j])]]

\* Player.from_dict: the constructor's arguments and active_effects; the
\* "events" of the dict are not read.
Player_from_dict(data) ==
    [Player(data.name) EXCEPT
        !.position = data.position, !.food = data.food, !.ammo = data.ammo,
        !.money = data.money, !.health = data.health,
        !.wagon_condition = data.wagon_condition,
        !.active_effects = data.active_effects]

\* The GameState object with the fields the model keeps as constants.
Whole(gs) ==
    [players |-> gs.players, day |-> gs.day, trail_length |-> TrailLength,
     landmarks |-> LandmarkNames, current_weather |-> gs.current_weather]

\* GameState.to_dict
GameState_to_dict(g) ==
    [players |-> [i \in 1..Len(g.players) |-> Player_to_dict(g.players[i])],
     day |-> g.day, trail_length |-> g.trail_length, landmarks |-> g.landmarks,
     current_weather |-> g.current_weather]

\* GameState.from_dict
GameState_from_dict(data) ==
    [players |-> [i \in 1..Len(data.players) |-> Player_from_dict(data.players[i])],
     day |-> data.day, trail_length |-> data.trail_length,
     landmarks |-> data.landmarks, current_weather |-> data.current_weather]

\* json.loads(json.dumps(d)) of a snapshot dict: the same values, the keys
\* of the landmarks as strings.
JsonKey(key) == IF "int" \in DOMAIN key THEN [str |-> ToString(key.int)] ELSE key

json_round(d) ==
    [d EXCEPT !.landmarks = {[key |-> JsonKey(l.key), name |-> l.name] : l \in d.landmarks}]

-----------------------------------------------------------------------------
(* Inputs                                                                  *)

\* A session fixes what the clients of a run send and which draws come up
\* ("shoot": hunts until the ammunition is gone; "log": the client's
\* repair_wagon, with illnesses coming up, until the log is past ten):
\* the names, the actions, the choice keys, the generate_event draws, the
\* weather update's draws (None: no update), and how far positions and
\* logs are followed.
Sessions ==
    [walk |->
        [names |-> {"Alice"}, actions |-> {"move"}, keys |-> {},
         gens |-> {"none"}, weathers |-> {None},
         maxPos |-> TrailLength + WalkOver, maxLog |-> Cardinality(Landmarks)],
     trade |->
        [names |-> {"Alice"}, actions |-> {"event_choice", "buy_food"},
         keys |-> {"buy_food", "buy_ammo", "repair", "rest"},
         gens |-> {"none", "trading_post"}, weathers |-> {None},
         maxPos |-> MaxPos, maxLog |-> MaxLog],
     ill |->
        [names |-> {"Alice"}, actions |-> {"event_choice"},
         keys |-> {"rest", "continue"},
         gens |-> {"none", "illness"}, weathers |-> {None},
         maxPos |-> MaxPos, maxLog |-> MaxLog],
     storm |->
        [names |-> {"Alice"}, actions |-> {"event_choice"},
         keys |-> {"continue", "wait"},
         gens |-> {"none", "Storm"}, weathers |-> {None},
         maxPos |-> MaxPos, maxLog |-> MaxLog],
     hunt |->
        [names |-> {"Alice"}, actions |-> {"hunt"}, keys |-> {},
         gens |-> {"none", "illness"}, weathers |-> {None, "Rain"},
         maxPos |-> MaxPos, maxLog |-> MaxLog],
     pair |->
        [names |-> {"Alice", "Bob"}, actions |-> {"move", "hunt"}, keys |-> {},
         gens |-> {"none"}, weathers |-> {None},
         maxPos |-> MaxPos, maxLog |-> 1],
     shoot |->
        [names |-> {"Alice"}, actions |-> {"hunt"}, keys |-> {},
         gens |-> {"none"}, weathers |-> {None},
         maxPos |-> MaxPos, maxLog |-> 10 + LogOver],
     log |->
        [names |-> {"Alice"}, actions |-> {"repair_wagon"}, keys |-> {},
         gens |-> {"none", "illness"}, weathers |-> {None},
         maxPos |-> MaxPos, maxLog |-> 10 + LogOver]]

Session == Sessions[session]

\* The choice argument that comes with an action.
Choices(action) ==
    IF action = "event_choice"
    THEN {[event_time |-> t, choice |-> c] : t \in 0..MaxTime, c \in Session.keys}
    ELSE {NoChoice}

\* The draws of one call; the hunt's draw is only taken by a hunt.
Draws(action) ==
    {[success |-> s, gen |-> g, weather |-> w] :
        s \in (IF action = "hunt" THEN BOOLEAN ELSE {TRUE}),
        g \in Session.gens,
        w \in Session.weathers}

NoCall == [player |-> None, action |-> None, choice |-> NoChoice, resolved |-> FALSE]

\* What the model follows of a game state.
Bounded(gs) ==
    /\ gs.day <= MaxDay
    /\ \A i \in 1..Len(gs.players) :
          /\ gs.players[i].position <= Session.maxPos
          /\ Len(gs.players[i].events) <= Session.maxLog
          /\ gs.players[i].food <= MaxFood
          /\ gs.players[i].ammo <= MaxAmmo

-----------------------------------------------------------------------------
(* GameServer.__init__                                                     *)

SnapshotInterval == 1
Conns == {1, 2}
NoSnapshot == [absent |-> TRUE]
NoLocals == [data |-> <<>>, msg |-> NoChoice, idx |-> 0, effects |-> <<>>,
             ok |-> FALSE, day_read |-> 0, current_time |-> 0,
             serialized |-> NoSnapshot, k |-> 0]
\* Of the broadcast a thread is making: reached are the connections it has
\* written to (or tried to), stayed those in the live set since it began.
NoHistory == [sent |-> <<>>, applied |-> <<>>, refused |-> FALSE, torn |-> FALSE,
              unsent |-> {}, reached |-> {}, stayed |-> {}]

\* GameClient.__init__ and connect(name): game_state None, nothing counted,
\* the receive_updates thread not yet started.  predicted_position is <<>>
\* for None and <<v>> for the number v; positions on the client are in
\* hundredths.  stream holds the tokens the server sent and recv has not
\* returned yet; sent, bad and reconciled record what happened.  ticks is
\* what pygame.time.get_ticks() returns now, in milliseconds, and predicted
\* records the last call of predict_position.
NoPrediction == [branch |-> "none"]

GameClient(name, predicted) ==
    [player_name |-> name, game_state |-> NoSnapshot,
     position_history |-> <<>>, last_update_time |-> 0,
     predicted_position |-> predicted, corrections |-> 0, pc |-> "none",
     stream |-> <<>>, closed |-> FALSE, sent |-> 0, bad |-> FALSE,
     reconciled |-> <<>>, ticks |-> 0, predicted |-> NoPrediction]

InitServer ==
    /\ client = GameClient("Alice", <<>>)
    /\ clients = <<>>
    /\ last_snapshot_time = 0
    /\ sock = [c \in Conns |-> "none"]
    /\ peer = [c \in Conns |-> "up"]
    /\ wire = [c \in Conns |-> <<>>]
    /\ pc = [c \in Conns |-> "none"]
    /\ loc = [c \in Conns |-> NoLocals]
    /\ got = [c \in Conns |-> NoSnapshot]
    /\ hist = [c \in Conns |-> NoHistory]

-----------------------------------------------------------------------------
(* The server applying whole actions, one after the other.                 *)

Init ==
    /\ players = <<>>
    /\ day = 1
    /\ current_weather = "Clear"
    /\ now = 0
    /\ last = NoCall
    /\ session \in DOMAIN Sessions
    /\ InitServer

\* time.time() moves on.
Tick ==
    /\ now < MaxTime
    /\ now' = now + 1
    /\ UNCHANGED <<players, day, current_weather, last, session, client>>
    /\ UNCHANGED serverVars

\* One call handle_action(name, action, choice) with the draws rnd; the
\* clock moves on by d between the branch's Event and the generated one.
HandleAction(name, action, choice, rnd, d) ==
    LET gs == HandleActionFn(GameState, name, action, choice, rnd, now, now + d)
        ps == WithPlayer(players, name)
        i == FindPlayer(ps, name)
    IN  /\ now + d <= MaxTime
        /\ d = 1 => Len(gs.players[i].events) = Len(ps[i].events) + 2
        /\ Bounded(gs)
        /\ players' = gs.players
        /\ day' = gs.day
        /\ current_weather' = gs.current_weather
        /\ now' = now + d
        /\ last' = [player |-> name, action |-> action, choice |-> choice,
                    resolved |-> action = "event_choice" /\ Resolves(ps[i], choice)]
        /\ UNCHANGED <<session, client, serverVars>>

Next ==
    \/ Tick
    \/ \E name \in Session.names, action \in Session.actions, d \in 0..1 :
         \E choice \in Choices(action), rnd \in Draws(action) :
            HandleAction(name, action, choice, rnd, d)

Spec == Init /\ [][Next]_vars

-----------------------------------------------------------------------------
(* The wire: json.dumps on the client, json.loads on the server.           *)

\* A payload is a sequence of tokens: the braces of the JSON object and one
\* token <<key, value>> per field.
LB == <<"{">>
RB == <<"}">>
\* A payload that is no JSON at all.
Garbage == << <<"#">> >>

\* GameClient.send_action: the message and its encoding.
Message(player, action, choice) ==
    [player |-> player, action |-> action, choice |-> choice]

Encode(m) ==
    <<LB, <<"player", m.player>>, <<"action", m.action>>, <<"skills", "levels">> >>
    \o (IF m.choice # NoChoice THEN << <<"choice", m.choice>> >> ELSE <<>>)
    \o <<RB>>

\* A JSON object with its player field left out.
EncodeNoPlayer(m) == <<LB, <<"action", m.action>>, <<"skills", "levels">>, RB>>

\* json.loads(data) succeeds: exactly one object, nothing before or after.
WellFormed(data) ==
    /\ Len(data) >= 2
    /\ data[1] = LB
    /\ data[Len(data)] = RB
    /\ \A i \in 2..(Len(data) - 1) : Len(data[i]) = 2

Keys(data) == {data[i][1] : i \in 2..(Len(data) - 1)}

ValueOf(data, key) ==
    data[CHOOSE i \in 2..(Len(data) - 1) :
            /\ data[i][1] = key
            /\ \A j \in (i + 1)..(Len(data) - 1) : data[j][1] # key][2]

\* Lines 272-273 raise nothing: the payload loads and has both fields.
Decodes(data) ==
    WellFormed(data) /\ "player" \in Keys(data) /\ "action" \in Keys(data)

\* action["player"], action["action"], action.get("choice")
Decoded(data) ==
    Message(ValueOf(data, "player"), ValueOf(data, "action"),
            IF "choice" \in Keys(data) THEN ValueOf(data, "choice") ELSE NoChoice)

\* The length of the first payload on the wire, as it was sent.
FirstLen(w) ==
    IF w[1] = LB /\ \E i \in 1..Len(w) : w[i] = RB
    THEN CHOOSE i \in 1..Len(w) : w[i] = RB /\ \A j \in 1..(i - 1) : w[j] # RB
    ELSE 1

-----------------------------------------------------------------------------
(* Sessions of the threaded server.                                        *)

\* How many payloads a client sends.
MaxSends == 2

MoveBy(name) == Encode(Message(name, "move", NoChoice))
HuntBy(name) == Encode(Message(name, "hunt", NoChoice))
ChoiceBy(name, t, key) ==
    Encode(Message(name, "event_choice", [event_time |-> t, choice |-> key]))

\* A session fixes which connections are made, the payloads their clients
\* send, whether recv returns the payloads as they were sent ("whole") or
\* cut anywhere ("any"), what the clients' ends may do besides, and which
\* generate_event draws come up.  In "shop" every call finds a trading
\* post, and two clients resolve its repair offer for the same player, two
\* times each; in "sick" every call brings an illness, and the two clients
\* resolve it with a rest.
ServerSessions ==
    [race |->
        [conns |-> {1, 2}, payloads |-> {MoveBy("Alice")}, cuts |-> "whole",
         faults |-> {}, sends |-> 1, gens |-> {"none"}],
     frames |->
        [conns |-> {1}, payloads |-> {MoveBy("Alice"), HuntBy("Alice")},
         cuts |-> "any", faults |-> {}, sends |-> MaxSends, gens |-> {"none"}],
     junk |->
        [conns |-> {1},
         payloads |-> {MoveBy("Alice"), Garbage,
                       EncodeNoPlayer(Message("Alice", "move", NoChoice))},
         cuts |-> "whole", faults |-> {}, sends |-> MaxSends, gens |-> {"none"}],
     faults |->
        [conns |-> {1, 2}, payloads |-> {MoveBy("Bob")}, cuts |-> "whole",
         faults |-> {"close", "stall"}, sends |-> 1, gens |-> {"none"}],
     shop |->
        [conns |-> {1, 2},
         payloads |-> {ChoiceBy("Alice", 0, "repair")},
         cuts |-> "whole", faults |-> {}, sends |-> 2,
         gens |-> {"trading_post"}],
     sick |->
        [conns |-> {1, 2},
         payloads |-> {ChoiceBy("Alice", 0, "rest")},
         cuts |-> "whole", faults |-> {}, sends |-> 2,
         gens |-> {"illness"}]]

ServerSession == ServerSessions[session]

\* The lengths recv may return from the wire w.
Cuts(w) == IF ServerSession.cuts = "any" THEN 1..Len(w) ELSE {FirstLen(w)}

\* The draws of the calls the threaded server makes.
ServerDraws ==
    {[success |-> TRUE, gen |-> g, weather |-> None] : g \in ServerSession.gens}

-----------------------------------------------------------------------------
(* GameServer.start, and the clients.                                      *)

\* accept(), clients.append(client_socket) and the start of the thread.
Accept(c) ==
    /\ c \in ServerSession.conns
    /\ sock[c] = "none"
    /\ clients' = Append(clients, c)
    /\ sock' = [sock EXCEPT ![c] = "open"]
    /\ pc' = [pc EXCEPT ![c] = "recv"]
    /\ UNCHANGED <<gameVars, now, last, session, client, last_snapshot_time, peer, wire,
                   loc, got, hist>>

\* The client of c sends a payload: sendall(data).
ClientSend(c, payload) ==
    /\ sock[c] = "open"
    /\ peer[c] = "up"
    /\ Len(hist[c].sent) < ServerSession.sends
    /\ wire' = [wire EXCEPT ![c] = wire[c] \o payload]
    /\ hist' = [hist EXCEPT ![c].sent = Append(hist[c].sent, payload)]
    /\ UNCHANGED <<gameVars, now, last, session, client, clients, last_snapshot_time,
                   sock, peer, pc, loc, got>>

\* The client of c closes its end, or stops reading from it.
ClientFault(c, fault) ==
    /\ fault \in ServerSession.faults
    /\ sock[c] # "none"
    /\ peer[c] = "up"
    /\ peer' = [peer EXCEPT ![c] = IF fault = "close" THEN "gone" ELSE "stalled"]
    /\ UNCHANGED <<gameVars, now, last, session, client, clients, last_snapshot_time,
                   sock, wire, pc, loc, got, hist>>

-----------------------------------------------------------------------------
(* GameServer.handle_client, statement by statement.                       *)

Goto(c, label) == pc' = [pc EXCEPT ![c] = label]

\* data = client_socket.recv(4096): k tokens of the wire, or b'' at the end
\* of the stream (the break), or an error; with nothing to read and the
\* client still there, the thread waits.
Recv(c, k) ==
    /\ pc[c] = "recv"
    /\ IF wire[c] # <<>>
       THEN /\ k \in Cuts(wire[c])
            /\ loc' = [loc EXCEPT ![c].data = SubSeq(wire[c], 1, k)]
            /\ wire' = [wire EXCEPT ![c] = SubSeq(wire[c], k + 1, Len(wire[c]))]
            /\ Goto(c, "loads")
       ELSE /\ k = 1
            /\ peer[c] = "gone"
            /\ Goto(c, "remove")
            /\ UNCHANGED <<loc, wire>>
    /\ UNCHANGED <<gameVars, now, last, session, client, clients, last_snapshot_time,
                   sock, peer, got, hist>>

\* action = json.loads(data.decode()) and the reading of its fields; an
\* exception leaves the loop for the finally clause.
Loads(c) ==
    /\ pc[c] = "loads"
    /\ IF Decodes(loc[c].data)
       THEN /\ loc' = [loc EXCEPT ![c].msg = Decoded(loc[c].data)]
            /\ Goto(c, "lookup")
            /\ UNCHANGED hist
       ELSE /\ hist' = [hist EXCEPT ![c].refused = TRUE]
            /\ Goto(c, "remove")
            /\ UNCHANGED loc
    /\ UNCHANGED <<gameVars, now, last, session, client, clients, last_snapshot_time,
                   sock, peer, wire, got>>

\* handle_action, line 205: the lookup of the player.
Lookup(c) ==
    /\ pc[c] = "lookup"
    /\ loc' = [loc EXCEPT ![c].idx = FindPlayer(players, loc[c].msg.player)]
    /\ Goto(c, IF FindPlayer(players, loc[c].msg.player) = 0 THEN "append" ELSE "apply")
    /\ UNCHANGED <<gameVars, now, last, session, client, clients, last_snapshot_time,
                   sock, peer, wire, got, hist>>

\* handle_action, lines 207-208: the new Player is appended.
AppendPlayer(c) ==
    /\ pc[c] = "append"
    /\ players' = Append(players, Player(loc[c].msg.player))
    /\ loc' = [loc EXCEPT ![c].idx = Len(players) + 1]
    /\ Goto(c, "apply")
    /\ UNCHANGED <<day, current_weather, now, last, session, client, clients,
                   last_snapshot_time, sock, peer, wire, got, hist>>

\* The bundle's first item is a debit of money: the loop calls spend_money
\* before anything else is written.
StartsWithDebit(items) ==
    items # <<>> /\ Head(items)[1] = "money" /\ Head(items)[2] < 0

\* The place of the first day item of a bundle, 0 if it has none.
DayAt(items) ==
    IF \E j \in 1..Len(items) : items[j][1] = "day"
    THEN CHOOSE j \in 1..Len(items) :
            items[j][1] = "day" /\ \A h \in 1..(j - 1) : items[h][1] # "day"
    ELSE 0

\* handle_action, lines 210-264, on the Player object the thread holds.
\* When the branch comes to spend_money first, the step ends after the
\* check of the balance (line 86), the answer held by the thread; when the
\* bundle has a day item, the step ends after the items before it and the
\* read of game_state.day for the += of line 255.
Apply(c) ==
    LET m == loc[c].msg
        i == loc[c].idx
        items == IF m.action = "event_choice" THEN Bundle(players[i], m.choice)
                 ELSE <<>>
    IN  /\ pc[c] = "apply"
        /\ IF StartsWithDebit(items)
           THEN /\ loc' = [loc EXCEPT
                             ![c].effects = items,
                             ![c].ok = spend_money_check(players[i], Abs(Head(items)[2]))]
                /\ Goto(c, "spend")
                /\ UNCHANGED <<gameVars, hist>>
           ELSE IF DayAt(items) # 0
           THEN LET st == ApplyEffects([pl |-> players[i], day |-> day],
                                       SubSeq(items, 1, DayAt(items) - 1))
                IN  /\ players' = [players EXCEPT ![i] = st.pl]
                    /\ loc' = [loc EXCEPT
                                 ![c].effects = SubSeq(items, DayAt(items), Len(items)),
                                 ![c].day_read = day]
                    /\ Goto(c, "addday")
                    /\ UNCHANGED <<day, current_weather, hist>>
           ELSE \E rnd \in ServerDraws :
                  LET gs == ApplyAt(GameState, i, m.action, m.choice, rnd, now, now)
                  IN  /\ players' = gs.players
                      /\ day' = gs.day
                      /\ current_weather' = gs.current_weather
                      /\ hist' = [hist EXCEPT ![c].applied = Append(hist[c].applied, m)]
                      /\ Goto(c, "check")
                      /\ UNCHANGED loc
        /\ UNCHANGED <<now, last, session, client, clients, last_snapshot_time, sock,
                       peer, wire, got>>

\* spend_money from line 87 on, then the rest of the bundle and of
\* handle_action: the debit is made if the check passed, on the balance
\* as it is now.
Spend(c) ==
    LET i == loc[c].idx
        items == loc[c].effects
        pl == IF loc[c].ok
              THEN spend_money_debit(players[i], Abs(Head(items)[2]))
              ELSE players[i]
        st == ApplyEffects([pl |-> pl, day |-> day], Tail(items))
    IN  /\ pc[c] = "spend"
        /\ \E rnd \in ServerDraws :
              LET gs == Finish(GameState, i, st, rnd, now)
              IN  /\ players' = gs.players
                  /\ day' = gs.day
                  /\ current_weather' = gs.current_weather
        /\ hist' = [hist EXCEPT ![c].applied = Append(hist[c].applied, loc[c].msg)]
        /\ Goto(c, "check")
        /\ UNCHANGED <<now, last, session, client, clients, last_snapshot_time, sock,
                       peer, wire, loc, got>>

\* The write of game_state.day += value (line 255) with the day that was
\* read, then the rest of the bundle and of handle_action.
AddDay(c) ==
    LET i == loc[c].idx
        items == loc[c].effects
        st == ApplyEffects([pl |-> players[i],
                            day |-> loc[c].day_read + Head(items)[2]],
                           Tail(items))
    IN  /\ pc[c] = "addday"
        /\ \E rnd \in ServerDraws :
              LET gs == Finish(GameState, i, st, rnd, now)
              IN  /\ players' = gs.players
                  /\ day' = gs.day
                  /\ current_weather' = gs.current_weather
        /\ hist' = [hist EXCEPT ![c].applied = Append(hist[c].applied, loc[c].msg)]
        /\ Goto(c, "check")
        /\ UNCHANGED <<now, last, session, client, clients, last_snapshot_time, sock,
                       peer, wire, loc, got>>

\* broadcast_game_state, lines 194-195: the interval check.
Check(c) ==
    /\ pc[c] = "check"
    /\ loc' = [loc EXCEPT ![c].current_time = now]
    /\ Goto(c, IF now - last_snapshot_time >= SnapshotInterval THEN "stamp" ELSE "recv")
    /\ UNCHANGED <<gameVars, now, last, session, client, clients, last_snapshot_time,
                   sock, peer, wire, got, hist>>

\* broadcast_game_state, line 196.
Stamp(c) ==
    /\ pc[c] = "stamp"
    /\ last_snapshot_time' = loc[c].current_time
    /\ Goto(c, "dumps")
    /\ UNCHANGED <<gameVars, now, last, session, client, clients, sock, peer, wire,
                   loc, got, hist>>

\* Some thread is inside handle_action.
InHandleAction(c) == pc[c] \in {"lookup", "append", "apply", "spend", "addday"}

\* broadcast_game_state, line 197: the state is serialized; the loop over
\* self.clients starts at index 0.
Dumps(c) ==
    /\ pc[c] = "dumps"
    /\ loc' = [loc EXCEPT ![c].serialized = GameState, ![c].k = 0]
    /\ hist' = [hist EXCEPT ![c].torn = \E d \in Conns : InHandleAction(d),
                            ![c].unsent = {},
                            ![c].reached = {},
                            ![c].stayed = {clients[j] : j \in 1..Len(clients)}]
    /\ Goto(c, "send")
    /\ UNCHANGED <<gameVars, now, last, session, client, clients, last_snapshot_time,
                   sock, peer, wire, got>>

\* broadcast_game_state, lines 198-202: one pass of the loop. The list
\* iterator takes the item at its index, if there is one; sendall delivers
\* the snapshot, raises (the exception is printed), or waits for a client
\* that does not read.
SendNext(c) ==
    /\ pc[c] = "send"
    /\ IF loc[c].k < Len(clients)
       THEN LET to == clients[loc[c].k + 1]
            IN  /\ peer[to] # "stalled" \/ sock[to] = "closed"
                /\ loc' = [loc EXCEPT ![c].k = loc[c].k + 1]
                /\ IF sock[to] = "closed" \/ peer[to] = "gone"
                   THEN /\ hist' = [hist EXCEPT
                                      ![c].unsent = hist[c].unsent \cup {to},
                                      ![c].reached = hist[c].reached \cup {to}]
                        /\ UNCHANGED got
                   ELSE /\ got' = [got EXCEPT ![to] = loc[c].serialized]
                        /\ hist' = [hist EXCEPT
                                      ![c].reached = hist[c].reached \cup {to}]
                /\ UNCHANGED pc
       ELSE /\ Goto(c, "recv")
            /\ hist' = [hist EXCEPT ![c].reached = {}, ![c].stayed = {}]
            /\ UNCHANGED <<loc, got>>
    /\ UNCHANGED <<gameVars, now, last, session, client, clients, last_snapshot_time,
                   sock, peer, wire>>

\* A remove that takes the head of the list, whatever it is.
ListDropHead(list, c) == Tail(list)

\* list.remove: the list without the first item equal to c.
ListRemove(list, c) ==
    LET i == CHOOSE i \in 1..Len(list) :
                list[i] = c /\ \A j \in 1..(i - 1) : list[j] # c
    IN  SubSeq(list, 1, i - 1) \o SubSeq(list, i + 1, Len(list))

\* The finally clause, line 278.
Remove(c) ==
    /\ pc[c] = "remove"
    /\ clients' = ListRemove(clients, c)
    /\ hist' = [d \in Conns |-> [hist[d] EXCEPT !.stayed = hist[d].stayed \ {c}]]
    /\ Goto(c, "close")
    /\ UNCHANGED <<gameVars, now, last, session, client, last_snapshot_time, sock, peer,
                   wire, loc, got>>

\* The finally clause, line 279.
Close(c) ==
    /\ pc[c] = "close"
    /\ sock' = [sock EXCEPT ![c] = "closed"]
    /\ Goto(c, "done")
    /\ UNCHANGED <<gameVars, now, last, session, client, clients, last_snapshot_time,
                   peer, wire, loc, got, hist>>

\* A step of the handle_client thread of c.
Thread(c) ==
    \/ \E k \in 1..(IF wire[c] = <<>> THEN 1 ELSE Len(wire[c])) : Recv(c, k)
    \/ Loads(c)
    \/ Lookup(c)
    \/ AppendPlayer(c)
    \/ Apply(c)
    \/ Spend(c)
    \/ AddDay(c)
    \/ Check(c)
    \/ Stamp(c)
    \/ Dumps(c)
    \/ SendNext(c)
    \/ Remove(c)
    \/ Close(c)

InitThreaded ==
    /\ players = <<>>
    /\ day = 1
    /\ current_weather = "Clear"
    /\ now = 0
    /\ last = NoCall
    /\ session \in DOMAIN ServerSessions
    /\ InitServer

NextThreaded ==
    \/ Tick
    \/ \E c \in Conns : Accept(c)
    \/ \E c \in Conns : \E payload \in ServerSession.payloads : ClientSend(c, payload)
    \/ \E c \in Conns : \E fault \in {"close", "stall"} : ClientFault(c, fault)
    \/ \E c \in Conns : Thread(c)

SpecThreaded == InitThreaded /\ [][NextThreaded]_vars

\* The scheduler runs every thread that can take a step, and time passes;
\* nothing makes a client connect, send or go away.
SpecThreadedFair ==
    /\ SpecThreaded
    /\ WF_vars(Tick)
    /\ \A c \in Conns : WF_vars(Thread(c))

-----------------------------------------------------------------------------
(* GameClient: receive_updates and reconcile_position.                     *)

\* PredictionConfig, in hundredths; max_prediction_time in milliseconds.
reconciliation_tolerance == 200
interpolation_factor == 30
prediction_speed_multiplier == 120
max_prediction_time == 500

\* The client's clock advances by half of max_prediction_time at a time, up
\* to MaxClock times.
MaxClock == 4
ClockStep == max_prediction_time \div 2

\* How many snapshots the server sends to the client, and how far along the
\* trail the player of the snapshots is.
MaxSnapshots == 2
MaxServerPos == 2

\* The values predict_position has left in predicted_position.
Predictions == {<<>>, <<0>>, <<120>>, <<190>>, <<500>>}

\* Values of position_history, a list of (position, time) pairs: empty, one
\* entry, two entries at the same time or with the time going back, steady
\* progress, uneven progress, a step back, and a step back that cancels the
\* direction's share of the smoothed velocity.
Histories ==
    {<<>>,
     <<<<0, 0>>>>,
     <<<<0, 0>>, <<1, 0>>>>,
     <<<<0, 1>>, <<1, 0>>>>,
     <<<<0, 0>>, <<1, 1>>>>,
     <<<<0, 0>>, <<1, 2>>, <<3, 3>>>>,
     <<<<2, 0>>, <<0, 1>>>>,
     <<<<7, 0>>, <<0, 3>>>>}

\* A session of the client fixes the prediction and the history it starts
\* with, how many snapshots arrive, how far its clock runs, and the calls of
\* predict_position (current_pos, direction) and of reconcile_position
\* (server_pos) that are made.
ClientSessions ==
    [client |->
        [predictions |-> Predictions, histories |-> {<<>>},
         snapshots |-> MaxSnapshots, clock |-> 0, calls |-> {},
         servers |-> {100 * n : n \in 0..MaxServerPos}],
     predict |->
        [predictions |-> {<<>>}, histories |-> Histories,
         snapshots |-> 1, clock |-> MaxClock,
         calls |-> {<<MaxServerPos, 1>>, <<0, 0 - 1>>},
         servers |-> {}]]

ClientSession == ClientSessions[session]

\* The game state after n moves of Alice on a fresh server.
RECURSIVE AfterMoves(_)
AfterMoves(n) ==
    IF n = 0
    THEN HandleActionFn([players |-> <<>>, day |-> 1, current_weather |-> "Clear"],
                        "Alice", "repair_wagon", NoChoice,
                        [success |-> TRUE, gen |-> "none", weather |-> None], 0, 0)
    ELSE HandleActionFn(AfterMoves(n - 1), "Alice", "move", NoChoice,
                        [success |-> TRUE, gen |-> "none", weather |-> None], 0, 0)

\* The snapshots the server sends: json.dumps(self.game_state.to_dict()).
Snapshots == {GameState_to_dict(Whole(AfterMoves(n))) : n \in 0..MaxServerPos}

EncodeSnapshot(d) ==
    <<LB, <<"players", d.players>>, <<"day", d.day>>,
      <<"trail_length", d.trail_length>>, <<"landmarks", d.landmarks>>,
      <<"current_weather", d.current_weather>>, RB>>

\* json.loads of a payload that loads.
DecodedSnapshot(data) ==
    json_round([players |-> ValueOf(data, "players"), day |-> ValueOf(data, "day"),
                trail_length |-> ValueOf(data, "trail_length"),
                landmarks |-> ValueOf(data, "landmarks"),
                current_weather |-> ValueOf(data, "current_weather")])

\* next((p["position"] for p in game_state["players"] if p["name"] == name),
\* None), in hundredths; <<>> for None.
ServerPos(game_state, name) ==
    IF FindPlayer(game_state.players, name) = 0 THEN <<>>
    ELSE <<100 * game_state.players[FindPlayer(game_state.players, name)].position>>

\* GameClient.reconcile_position
reconcile_position(predicted_position, server_pos) ==
    IF predicted_position # <<>>
    THEN LET error == Abs(server_pos - predicted_position[1])
         IN  IF error > reconciliation_tolerance
             THEN server_pos
                    + ((server_pos - predicted_position[1]) * interpolation_factor) \div 100
             ELSE server_pos
    ELSE server_pos

\* The velocities of predict_position, from index i of the history on, in
\* the order the loop appends them.
RECURSIVE velocities(_, _)
velocities(position_history, i) ==
    IF i > Len(position_history) THEN <<>>
    ELSE LET dt == position_history[i][2] - position_history[i - 1][2]
         IN  (IF dt > 0
              THEN <<Rat(position_history[i][1] - position_history[i - 1][1], dt)>>
              ELSE <<>>) \o velocities(position_history, i + 1)

\* The horizon with no clamp.
prediction_time_unclamped(ticks, last_update_time) ==
    Rat(ticks - last_update_time, 1000)

\* min(max_prediction_time, (get_ticks() - last_update_time) / 1000.0)
prediction_time(ticks, last_update_time) ==
    RMin(Rat(max_prediction_time, 1000), Rat(ticks - last_update_time, 1000))

\* GameClient.predict_position: what it returns, by which return statement,
\* and the smoothed velocity and the horizon it used.
predict_position(position_history, last_update_time, ticks, current_pos, direction) ==
    LET vs == velocities(position_history, 2)
        fallback == [branch |-> "fallback",
                     returned |-> Rat(current_pos + direction, 1)]
    IN  IF position_history = <<>> THEN fallback
        ELSE IF vs # <<>>
        THEN LET avg_velocity == RDiv(RSum(vs), Rat(Len(vs), 1))
                 smoothed_velocity ==
                     RAdd(RMul(avg_velocity, Rat(interpolation_factor, 100)),
                          RMul(Rat(direction, 1),
                               RSub(Rat(1, 1), Rat(interpolation_factor, 100))))
                 horizon == prediction_time(ticks, last_update_time)
                 predicted_pos ==
                     RAdd(Rat(current_pos, 1),
                          RMul(RMul(smoothed_velocity, horizon),
                               Rat(prediction_speed_multiplier, 100)))
             IN  [branch |-> "velocity", returned |-> predicted_pos,
                  smoothed_velocity |-> smoothed_velocity,
                  prediction_time |-> horizon]
        ELSE fallback

\* A position on the grid of hundredths the rest of the client is kept on.
Hundredths(x) == (100 * x.n) \div x.d

clientOther == <<gameVars, now, last, session, serverVars>>

\* Time passes on the client.
ClockTick ==
    /\ client.pc # "none"
    /\ client.ticks < ClientSession.clock * ClockStep
    /\ client' = [client EXCEPT !.ticks = @ + ClockStep]
    /\ UNCHANGED clientOther

\* The server's sendall of a snapshot reaches the client's socket.
SnapshotArrives(d) ==
    /\ client.pc # "none"
    /\ ~client.closed
    /\ client.sent < ClientSession.snapshots
    /\ client' = [client EXCEPT !.stream = client.stream \o EncodeSnapshot(d),
                                !.sent = client.sent + 1]
    /\ UNCHANGED clientOther

\* The server closes the connection.
ServerCloses ==
    /\ client.pc # "none"
    /\ ~client.closed
    /\ client' = [client EXCEPT !.closed = TRUE]
    /\ UNCHANGED clientOther

\* One pass of the loop of receive_updates: recv returns k tokens of the
\* stream, or b'' at its end (break); a payload that json.loads refuses
\* raises, and the except clause prints and breaks; a payload that loads
\* counts a correction if the prediction is off by more than the tolerance,
\* and becomes game_state.
ReceiveUpdate(k) ==
    /\ client.pc = "recv"
    /\ IF client.stream = <<>>
       THEN /\ k = 1
            /\ client.closed
            /\ client' = [client EXCEPT !.pc = "done"]
       ELSE LET data == SubSeq(client.stream, 1, k)
                rest == SubSeq(client.stream, k + 1, Len(client.stream))
            IN  /\ k \in 1..Len(client.stream)
                /\ IF WellFormed(data)
                   THEN LET game_state == DecodedSnapshot(data)
                            server_pos == ServerPos(game_state, client.player_name)
                            off == /\ client.predicted_position # <<>>
                                   /\ server_pos # <<>>
                                   /\ Abs(server_pos[1] - client.predicted_position[1])
                                         > reconciliation_tolerance
                        IN  client' = [client EXCEPT
                                          !.stream = rest,
                                          !.last_update_time = client.ticks,
                                          !.corrections = IF off THEN @ + 1 ELSE @,
                                          !.game_state = game_state]
                   ELSE client' = [client EXCEPT !.stream = rest, !.bad = TRUE,
                                                 !.pc = "done"]
    /\ UNCHANGED clientOther

\* A call reconcile_position(server_pos); the call and what it returned are
\* recorded.
ReconcilePosition(server_pos) ==
    /\ client.pc # "none"
    /\ server_pos \in ClientSession.servers
    /\ client' = [client EXCEPT !.reconciled =
                    <<server_pos,
                      reconcile_position(client.predicted_position, server_pos)>>]
    /\ UNCHANGED clientOther

\* A call predict_position(current_pos, direction) on the thread of the
\* interface: the velocity branch stores what it returns in
\* predicted_position; the call and what it returned are recorded.
PredictPosition(current_pos, direction) ==
    /\ client.pc # "none"
    /\ <<current_pos, direction>> \in ClientSession.calls
    /\ LET r == predict_position(client.position_history, client.last_update_time,
                                 client.ticks, current_pos, direction)
       IN  client' = [client EXCEPT
                         !.predicted_position =
                             IF r.branch = "velocity"
                             THEN <<Hundredths(r.returned)>> ELSE @,
                         !.predicted =
                             [call |-> r, current_pos |-> current_pos,
                              direction |-> direction,
                              elapsed |-> client.ticks - client.last_update_time,
                              branch |-> r.branch]]
    /\ UNCHANGED clientOther

\* A client that has connected, with some prediction made, beside a server
\* that it does not act on.
InitClient ==
    /\ players = <<>>
    /\ day = 1
    /\ current_weather = "Clear"
    /\ now = 0
    /\ last = NoCall
    /\ session \in DOMAIN ClientSessions
    /\ clients = <<>>
    /\ last_snapshot_time = 0
    /\ sock = [c \in Conns |-> "none"]
    /\ peer = [c \in Conns |-> "up"]
    /\ wire = [c \in Conns |-> <<>>]
    /\ pc = [c \in Conns |-> "none"]
    /\ loc = [c \in Conns |-> NoLocals]
    /\ got = [c \in Conns |-> NoSnapshot]
    /\ hist = [c \in Conns |-> NoHistory]
    /\ \E predicted \in ClientSession.predictions :
          \E position_history \in ClientSession.histories :
             client = [GameClient("Alice", predicted) EXCEPT
                          !.pc = "recv", !.position_history = position_history]

NextClient ==
    \/ \E d \in Snapshots : SnapshotArrives(d)
    \/ ServerCloses
    \/ \E k \in 1..(IF client.stream = <<>> THEN 1 ELSE Len(client.stream)) :
          ReceiveUpdate(k)
    \/ \E server_pos \in ClientSession.servers : ReconcilePosition(server_pos)
    \/ ClockTick
    \/ \E call \in ClientSession.calls : PredictPosition(call[1], call[2])

SpecClient == InitClient /\ [][NextClient]_vars

-----------------------------------------------------------------------------
(* The claims on the game rules, under Spec.                               *)

\* The record handle_action(name, ...) works on, in a players list.
PlayerOf(ps, name) == WithPlayer(ps, name)[FindPlayer(WithPlayer(ps, name), name)]

\* C1: a player's position never decreases, never exceeds trail_length, and
\* a move applied at trail_length leaves it there.
C1_PositionClamped ==
    [][\A i \in 1..Len(players) :
          /\ players'[i].position >= players[i].position
          /\ players'[i].position <= TrailLength
          /\ players[i].position = TrailLength
                => players'[i].position = TrailLength]_vars

\* C3: an event_choice applied again with the same event_time and choice
\* key, after one that resolved, leaves the player's health, food, ammo,
\* money and wagon_condition and the day as they were.
Vitals(pl) == <<pl.health, pl.food, pl.ammo, pl.money, pl.wagon_condition>>

C3_SecondResolutionNoOp ==
    [][(last.resolved /\ last' = last)
          => /\ day' = day
             /\ Vitals(PlayerOf(players', last.player))
                  = Vitals(PlayerOf(players, last.player))]_vars

\* C4: when event_choice resolves a trading-post bundle, the gain in food,
\* ammo or wagon_condition is applied only if the bundle's money debit is.
C4_TradeAllOrNothing ==
    [][(last'.resolved /\ last'.choice.choice \in {"buy_food", "buy_ammo", "repair"})
          => LET before == PlayerOf(players, last'.player)
                 after == PlayerOf(players', last'.player)
             IN  (\/ after.food > before.food
                  \/ after.ammo > before.ammo
                  \/ after.wagon_condition > before.wagon_condition)
                    => after.money < before.money]_vars

\* C5: in every reachable state every player's food, ammo and money are
\* not negative.
C5_ResourcesNonNegative ==
    \A i \in 1..Len(players) :
        players[i].food >= 0 /\ players[i].ammo >= 0 /\ players[i].money >= 0

\* C6: every player's health and wagon_condition are within [0, 100].
C6_VitalsClamped ==
    \A i \in 1..Len(players) :
        /\ players[i].health >= 0 /\ players[i].health <= 100
        /\ players[i].wagon_condition >= 0 /\ players[i].wagon_condition <= 100

\* A rest (health + 20, a day lost) was resolved and left the player at
\* health 100: the upper clamp of modify_health acted.
C6_Witness_RestAtFullHealth ==
    /\ last.resolved /\ last.choice.choice = "rest"
    /\ PlayerOf(players, last.player).health = 100
    /\ day > 1

\* A step is a call of handle_action for this action (a call that changes
\* nothing at all is no step).
Called(action) == last'.action = action /\ (last' # last \/ players' # players)

\* C11: in every reachable state each player's event log holds at most 10
\* records (an append to a full log evicting the oldest).
C11_LogAtMostTen ==
    \A i \in 1..Len(players) : Len(players[i].events) <= 10

\* C12: a buy_food action applied with money >= 10 takes 10 money and gives
\* 15 food; with money < 10 it changes neither.
C12_BuyFoodExchange ==
    [][(last'.action = "buy_food" /\ last' # last)
          => LET before == PlayerOf(players, last'.player)
                 after == PlayerOf(players', last'.player)
             IN  IF before.money >= 10
                 THEN after.money = before.money - 10 /\ after.food = before.food + 15
                 ELSE after.money = before.money /\ after.food = before.food]_vars

\* The hunting records of a player's log.
HuntRecords(pl) ==
    Cardinality({j \in 1..Len(pl.events) : pl.events[j].type = "hunting"})

\* C13: a hunt with ammo >= 2 debits 2 ammo, appends one hunting record,
\* and adds between 15 and 25 food if the record is a success and none if
\* it is a failure; a hunt with ammo < 2 changes neither ammo nor food and
\* appends no hunting record.
C13_HuntExchange ==
    [][Called("hunt")
          => LET before == PlayerOf(players, last'.player)
                 after == PlayerOf(players', last'.player)
             IN  IF before.ammo >= 2
                 THEN /\ after.ammo = before.ammo - 2
                      /\ HuntRecords(after) = HuntRecords(before) + 1
                      /\ Len(after.events) > Len(before.events)
                      /\ LET rec == after.events[Len(before.events) + 1]
                         IN  /\ rec.type = "hunting"
                             /\ IF rec.description = "Successful hunt! Gained 20 food."
                                THEN after.food - before.food \in 15..25
                                ELSE after.food = before.food
                 ELSE /\ after.ammo = before.ammo
                      /\ after.food = before.food
                      /\ HuntRecords(after) = HuntRecords(before)]_vars

\* Ten hunts took the ammunition from 20 to 0, one of them a success: the
\* next hunt finds ammo < 2.
C13_Witness_AmmoGone ==
    /\ last.action = "hunt"
    /\ PlayerOf(players, last.player).ammo = 0
    /\ PlayerOf(players, last.player).food = 120
    /\ HuntRecords(PlayerOf(players, last.player)) = 10

C15_UnknownChoiceNoOp ==
    [][(Called("event_choice") /\ ~last'.resolved)
          => /\ players' = WithPlayer(players, last'.player)
             /\ day' = day
             /\ current_weather' = current_weather]_vars

\* C18: the snapshot of a state, encoded, decoded and rebuilt by from_dict,
\* gives the same to_dict again (compared as JSON encodes them).
C18_SnapshotRoundTrip ==
    json_round(GameState_to_dict(GameState_from_dict(
                  json_round(GameState_to_dict(Whole(GameState))))))
        = json_round(GameState_to_dict(Whole(GameState)))

\* C19: the weather is always one of the enumeration, and no call of
\* handle_action changes it.
C19_WeatherOnlyOnTimer ==
    /\ [](current_weather \in WeatherConditions)
    /\ [][(last' # last \/ players' # players)
             => current_weather' = current_weather]_vars

-----------------------------------------------------------------------------
(* The claims on the threaded server, under SpecThreaded.                  *)

\* c is in the live set.
Live(c) == \E i \in 1..Len(clients) : clients[i] = c

\* C25: a call of handle_action for a player changes no record of another
\* name: every record that was there and has another name is the same after
\* the call, and the only record the call can add is one of that name.
C25_OthersUntouched ==
    [][/\ Len(players') >= Len(players)
       /\ \A i \in 1..Len(players) :
             players'[i] # players[i] => players[i].name = last'.player
       /\ \A i \in (Len(players) + 1)..Len(players') :
             /\ i = Len(players) + 1
             /\ players'[i].name = last'.player]_vars

\* Bob's move has been applied while Alice's record, already moved, is there.
C25_Witness_BobMovesBesideAlice ==
    /\ Len(players) = 2
    /\ players[1].name = "Alice" /\ players[1].position >= 1
    /\ players[2].name = "Bob" /\ players[2].position >= 1
    /\ last.player = "Bob" /\ last.action = "move"

\* C2: no two executions of handle_action are in progress at the same time,
\* and no snapshot is serialized while one is in progress.
C2_SingleWriter ==
    /\ \A c, d \in Conns : c # d => ~(InHandleAction(c) /\ InHandleAction(d))
    /\ \A c \in Conns : ~hist[c].torn

\* How many of the payloads sent were read to their last token, n tokens
\* having been read.
RECURSIVE ReadWhole(_, _)
ReadWhole(sent, n) ==
    IF sent = <<>> \/ Len(Head(sent)) > n THEN 0
    ELSE 1 + ReadWhole(Tail(sent), n - Len(Head(sent)))

RECURSIVE TotalLen(_)
TotalLen(sent) == IF sent = <<>> THEN 0 ELSE Len(Head(sent)) + TotalLen(Tail(sent))

\* C7: every action message a client sends is applied exactly once and in
\* send order: whenever the handler of c is between payloads (or has ended),
\* the actions applied from c are the payloads read so far, in order,
\* however recv cut the stream.
C7_AppliedOnceInOrder ==
    \A c \in Conns :
        (pc[c] \in {"recv", "done"} /\ \A j \in 1..Len(hist[c].sent) : Decodes(hist[c].sent[j]))
            => LET n == ReadWhole(hist[c].sent, TotalLen(hist[c].sent) - Len(wire[c]))
               IN  hist[c].applied = [j \in 1..n |-> Decoded(hist[c].sent[j])]

\* C8: a payload that does not decode is dropped alone: while the client
\* is there, its connection stays in the live set and open.
C8_MalformedDropped ==
    \A c \in Conns :
        (hist[c].refused /\ peer[c] = "up") => (Live(c) /\ sock[c] = "open")

\* C9: when a broadcast ends, every connection the write to which failed
\* is out of the live set and closed; a write that succeeds removes nobody.
C9_FailedWriteRemoved ==
    [][\A c \in Conns :
          /\ (pc[c] = "send" /\ pc'[c] = "recv")
                => \A to \in hist[c].unsent : ~Live(to)' /\ sock'[to] = "closed"
          /\ (pc[c] = "send" /\ got' # got) => clients' = clients]_vars

\* C16: when the read of a connection ends (end of stream or error), the
\* finally clause removes and closes exactly that connection: no other
\* connection leaves the live set or is closed, and players, day and
\* weather stay as they are.
C16_ReadEndRemovesOnlyThat ==
    [][\A c \in Conns :
          (/\ ~hist[c].refused
           /\ pc'[c] # pc[c]
           /\ pc[c] \in {"remove", "close"} \/ (pc[c] = "recv" /\ pc'[c] = "remove"))
             => /\ gameVars' = gameVars
                /\ \A d \in Conns \ {c} :
                      sock'[d] = sock[d] /\ (Live(d)' <=> Live(d))
                /\ pc[c] = "remove" => ~Live(c)'
                /\ pc[c] = "close" => (~Live(c)' /\ sock'[c] = "closed")]_vars

\* The client of connection 1 went away and its handler has ended, while a
\* player is in the game and connection 2 is live and open.
C16_Witness_OneGone ==
    /\ pc[1] = "done" /\ peer[1] = "gone" /\ ~hist[1].refused
    /\ ~Live(1) /\ sock[1] = "closed"
    /\ Live(2) /\ sock[2] = "open"
    /\ players # <<>>

\* The thread of c is in sendall to another connection whose client does
\* not read: it waits there.
WaitsOnOther(c) ==
    /\ pc[c] = "send"
    /\ loc[c].k < Len(clients)
    /\ clients[loc[c].k + 1] # c
    /\ peer[clients[loc[c].k + 1]] = "stalled"
    /\ sock[clients[loc[c].k + 1]] # "closed"

\* C21: the handling of a connection's action never waits on a write to
\* another connection's socket.
C21_NoWaitOnOthers == \A c \in Conns : ~WaitsOnOther(c)

\* C23: no two Player records of game_state.players share a name.
C23_NamesUnique ==
    \A i, j \in 1..Len(players) : i # j => players[i].name # players[j].name

\* C24: when a broadcast ends, it has written to every connection that was
\* in the live set from its start to its end.
C24_BroadcastReachesAll ==
    [][\A c \in Conns :
          (pc[c] = "send" /\ pc'[c] = "recv")
             => hist[c].stayed \subseteq hist[c].reached]_vars

\* C26: two broadcasts whose interval checks were taken less than
\* snapshot_interval apart are never both made.
C26_SnapshotsApart ==
    \A c, d \in Conns :
        (c # d /\ pc[c] \in {"dumps", "send"} /\ pc[d] \in {"dumps", "send"})
           => Abs(loc[c].current_time - loc[d].current_time) >= SnapshotInterval

\* C27: the day counter starts at 1 and never decreases, and it increases
\* only by the write of a resolved bundle's day item.
C27_DayNeverDecreases ==
    /\ day = 1
    /\ [][/\ day' >= day
          /\ day' > day => \E c \in Conns : pc[c] = "addday" /\ pc'[c] = "check"]_vars

\* C10: while a connection is live, a snapshot of the current state is
\* eventually sent to it, whether or not another action is received.
C10_SnapshotEventually ==
    \A c \in Conns : Live(c) ~> (~Live(c) \/ got[c] = GameState)

-----------------------------------------------------------------------------
(* The claims on the client, under SpecClient.                             *)

\* C17: reconcile_position returns server_pos when there is no prediction
\* or the error is within the tolerance, and otherwise a value strictly
\* between predicted_position and server_pos.
C17_ReconcileBetween ==
    client.reconciled # <<>>
        => LET server_pos == client.reconciled[1]
               returned == client.reconciled[2]
               predicted == client.predicted_position
           IN  IF predicted = <<>>
                  \/ Abs(server_pos - predicted[1]) <= reconciliation_tolerance
               THEN returned = server_pos
               ELSE /\ Min(predicted[1], server_pos) < returned
                    /\ returned < Max(predicted[1], server_pos)

C20_KeepsReceiving ==
    [][(client'.bad /\ ~client.bad)
          => /\ client'.game_state = client.game_state
             /\ client'.pc = "recv"]_vars

====
